---- MODULE Spec2Model ----
(***************************************************************************)
(* Model of the command line driver file support of vlfeat                 *)
(* (src/generic-driver.h): struct _VlFileMeta and the functions            *)
(* vl_file_meta_parse, vl_file_meta_open, vl_file_meta_close,              *)
(* vl_file_meta_put_double, vl_file_meta_put_uint8 and                     *)
(* vl_file_meta_get_double, together with the part of the C library        *)
(* (fopen, fclose, fprintf, fwrite, fscanf, fread, feof) they call.        *)
(*                                                                         *)
(* C strings are sequences of runs of equal characters without the         *)
(* terminating NUL, so StrLen(s) is strlen(s).  A file is a sequence of    *)
(* bytes (0..255).  A double is the sequence of its 8 bytes, most          *)
(* significant byte first; in the memory of a little endian host the       *)
(* bytes are in the opposite order.  The host is chosen anew at each call  *)
(* of a function that reads or writes a double, so that a file may be      *)
(* written on one host and read on another.                                *)
(***************************************************************************)
EXTENDS Integers, Sequences, FiniteSets, TLC

----------------------------------------------------------------------------
(* Bounds of the model *)

\* fopen is called at most this many times in a behaviour
MaxFopen == 2

\* at most this many writes complete in a behaviour of Spec
MaxPuts == 1

\* at most this many doubles are written in a behaviour of RoundTripSpec
MaxRecords == 3

----------------------------------------------------------------------------
(* Program constants *)

\* sizeof (fm -> pattern), sizeof (fm -> name)
PatternSize == 1024
NameSize == 1024

VL_PROT_UNKNOWN == "VL_PROT_UNKNOWN"
VL_PROT_NONE    == "VL_PROT_NONE"
VL_PROT_ASCII   == "VL_PROT_ASCII"
VL_PROT_BINARY  == "VL_PROT_BINARY"

VL_ERR_OK       == "VL_ERR_OK"
VL_ERR_BAD_ARG  == "VL_ERR_BAD_ARG"
VL_ERR_OVERFLOW == "VL_ERR_OVERFLOW"
VL_ERR_IO       == "VL_ERR_IO"
VL_ERR_ALLOC    == "VL_ERR_ALLOC"
VL_ERR_EOF      == "VL_ERR_EOF"

\* the null FILE pointer; streams are numbered from 1
NULL == 0

----------------------------------------------------------------------------
(* Strings *)

(***************************************************************************)
(* A C string is kept as the sequence of its runs: <<c, n>> stands for     *)
(* n >= 1 repetitions of the character c, and adjacent runs differ in c,   *)
(* so that equal strings have equal representations.  The terminating NUL  *)
(* is not represented: StrLen(s) is strlen(s).                             *)
(***************************************************************************)

\* s followed by t
Cat(s, t) ==
  IF Len(s) = 0 THEN t
  ELSE IF Len(t) = 0 THEN s
  ELSE IF s[Len(s)][1] = t[1][1]
       THEN SubSeq(s, 1, Len(s) - 1) \o << <<t[1][1], s[Len(s)][2] + t[1][2]>> >> \o Tail(t)
       ELSE s \o t

\* the string of the characters chars
RECURSIVE Str(_)
Str(chars) ==
  IF Len(chars) = 0 THEN <<>> ELSE Cat(<< <<Head(chars), 1>> >>, Str(Tail(chars)))

\* a string of n characters, none of them ':' or '%'
Pad(n) == IF n = 0 THEN <<>> ELSE << <<"a", n>> >>

\* n copies of s
RECURSIVE Repeat(_, _)
Repeat(s, n) == IF n = 0 THEN <<>> ELSE Cat(s, Repeat(s, n - 1))

RECURSIVE StrLen(_)
StrLen(s) == IF Len(s) = 0 THEN 0 ELSE s[1][2] + StrLen(Tail(s))

\* the runs of ':' in s
ColonRuns(s) == {i \in 1..Len(s) : s[i][1] = ":"}

FirstColonRun(s) == CHOOSE i \in ColonRuns(s) : \A j \in ColonRuns(s) : i <= j

\* what follows the first ':' of s
AfterFirstColon(s) ==
  LET i == FirstColonRun(s)
  IN  Cat(IF s[i][2] > 1 THEN << <<":", s[i][2] - 1>> >> ELSE <<>>,
          SubSeq(s, i + 1, Len(s)))

ProtocolOfName(token) ==
  IF token = Str(<<"a","s","c","i","i">>) THEN VL_PROT_ASCII
  ELSE IF token = Str(<<"b","i","n","a","r","y">>) THEN VL_PROT_BINARY
  ELSE VL_PROT_UNKNOWN

\* arg = vl_string_parse_protocol (optarg, &protocol): without a ':' the protocol
\* is VL_PROT_NONE and arg is optarg; otherwise the protocol is the one named
\* before the first ':' and arg is what follows it
vl_string_parse_protocol(optarg) ==
  IF ColonRuns(optarg) = {}
  THEN [protocol |-> VL_PROT_NONE, arg |-> optarg]
  ELSE [protocol |-> ProtocolOfName(SubSeq(optarg, 1, FirstColonRun(optarg) - 1)),
        arg      |-> AfterFirstColon(optarg)]

vl_string_length(s) == StrLen(s)

\* q = vl_string_copy (dst, n, src): the length of src is returned, dst is
\* written when src and its terminator fit in n bytes
vl_string_copy(dst, n, src) ==
  [q |-> StrLen(src), dst |-> IF StrLen(src) < n THEN src ELSE dst]

\* every wildcardChar of source replaced by replacement, the other characters
\* copied
RECURSIVE ReplaceAll(_, _, _)
ReplaceAll(source, wildcardChar, replacement) ==
  IF Len(source) = 0 THEN <<>>
  ELSE Cat(IF source[1][1] = wildcardChar
           THEN Repeat(replacement, source[1][2]) ELSE <<source[1]>>,
           ReplaceAll(Tail(source), wildcardChar, replacement))

\* q = vl_string_replace_wildcard (dst, n, source, wildcardChar, '\0', replacement):
\* the length of the result is returned, dst is written when the result and
\* its terminator fit in n bytes
vl_string_replace_wildcard(dst, n, source, wildcardChar, replacement) ==
  LET r == ReplaceAll(source, wildcardChar, replacement)
  IN  [q |-> StrLen(r), dst |-> IF StrLen(r) < n THEN r ELSE dst]

----------------------------------------------------------------------------
(* Bytes, text and doubles *)

Reverse(s) == [i \in 1..Len(s) |-> s[Len(s) + 1 - i]]

RECURSIVE Pow2(_)
Pow2(k) == IF k = 0 THEN 1 ELSE 2 * Pow2(k - 1)

\* the bit of weight 2^i of n
BitOf(n, i) == (n \div Pow2(i)) % 2

\* floor (log2 (n)), n >= 1
Log2(n) == CHOOSE e \in 0..30 : Pow2(e) <= n /\ n < 2 * Pow2(e)

\* bit j (0 the sign, 1..11 the exponent, 12..63 the mantissa) of the IEEE 754
\* double holding the integer n >= 1
DoubleBit(n, j) ==
  LET e == Log2(n)
  IN  IF j = 0 THEN 0
      ELSE IF j <= 11 THEN BitOf(1023 + e, 11 - j)
      ELSE IF j - 12 < e THEN BitOf(n, e - 1 - (j - 12))
      ELSE 0

\* the double holding the integer n >= 0: its 8 bytes, most significant first
DoubleOfNat(n) ==
  IF n = 0 THEN [k \in 1..8 |-> 0]
  ELSE [k \in 1..8 |->
         128 * DoubleBit(n, 8 * (k - 1))     + 64 * DoubleBit(n, 8 * (k - 1) + 1)
        + 32 * DoubleBit(n, 8 * (k - 1) + 2) + 16 * DoubleBit(n, 8 * (k - 1) + 3)
        +  8 * DoubleBit(n, 8 * (k - 1) + 4) +  4 * DoubleBit(n, 8 * (k - 1) + 5)
        +  2 * DoubleBit(n, 8 * (k - 1) + 6) +      DoubleBit(n, 8 * (k - 1) + 7)]

\* the character codes of the decimal digits and of the space
DigitCode(d) == 48 + d
SpaceCode == 32
IsDigit(c) == 48 <= c /\ c <= 57
\* isspace: space, \t \n \v \f \r
IsSpace(c) == c = 32 \/ (9 <= c /\ c <= 13)

\* the decimal text of n >= 0, as character codes
RECURSIVE Decimal(_)
Decimal(n) ==
  IF n < 10 THEN <<DigitCode(n)>> ELSE Append(Decimal(n \div 10), DigitCode(n % 10))

\* the integer a sequence of digit codes denotes
RECURSIVE DecimalValue(_)
DecimalValue(digits) ==
  IF Len(digits) = 0 THEN 0
  ELSE 10 * DecimalValue(SubSeq(digits, 1, Len(digits) - 1)) + (digits[Len(digits)] - 48)

----------------------------------------------------------------------------
(* Inputs *)

\* an argument of vl_file_meta_parse: the null pointer or a string
NullArg == [null |-> TRUE, s |-> <<>>]
Arg(str) == [null |-> FALSE, s |-> str]

\* the option strings and the basenames of the specification Spec
OptArgs ==
  { NullArg,
    Arg(Str(<<"a","s","c","i","i",":","%">>)),
    Arg(Str(<<"b","i","n","a","r","y",":","%">>)) }

Basenames == { Str(<<"i","n">>) }

\* the option strings and the basenames of the specification LongSpec, with
\* those at the capacity of the buffers
LongOptArgs ==
  { NullArg,
    Arg(Str(<<"a","s","c","i","i",":","%">>)),
    Arg(Str(<<"b","i","n","a","r","y",":","%">>)),
    Arg(Str(<<"%","%">>)),
    Arg(Str(<<"x","m","l",":","f","o","o">>)),
    Arg(Str(<<"a","s","c","i","i",":">>)),
    Arg(Cat(Str(<<"a","s","c","i","i",":">>), Pad(PatternSize - 1))),
    Arg(Cat(Str(<<"b","i","n","a","r","y",":">>), Pad(PatternSize))),
    Arg(Pad(PatternSize)),
    Arg(Str(<<"A","S","C","I","I",":","%">>)) }

LongBasenames == { Str(<<"i","n">>), Pad(NameSize - 1), Pad(NameSize) }

\* the option strings and the basenames of the specification CycleSpec: one
\* option string changes the protocol and the pattern, one basename is too long
\* for the name buffer with the default pattern
CycleOptArgs == { NullArg, Arg(Str(<<"b","i","n","a","r","y",":","i","n">>)) }

CycleBasenames == { Str(<<"i","n">>), Pad(NameSize) }

Modes == { "r", "w" }

\* the doubles written, by the integers they hold, and the bytes written
DoubleInputs == { DoubleOfNat(1), DoubleOfNat(2) }
Uint8Inputs == { 7 }

\* what an uninitialised double on the stack may hold
Garbage == { [k \in 1..8 |-> 0], [k \in 1..8 |-> 255] }

\* the pattern and the protocol a driver initialises the structure with
DefaultPattern == Str(<<"%">>)
DefaultProtocols == { VL_PROT_NONE, VL_PROT_ASCII, VL_PROT_BINARY }

----------------------------------------------------------------------------
(* State *)

VARIABLES
  fm,        \* the VlFileMeta structure: active, pattern, protocol, name, file
  streams,   \* the FILE objects fopen has returned, by number
  fs,        \* the file system: the bytes of each existing file, by name
  x,         \* the caller's double, which vl_file_meta_get_double writes
  status,    \* "running", "aborted" (assert failed) or "crashed"
  call,      \* the last call: the function and its arguments
  ret,       \* the value the last call returned
  libcalls,  \* the C library calls of the last call: function and result
  nputs,     \* the number of writes completed so far
  opened,    \* history: the last open of an active handle returned VL_ERR_OK
             \* and close has not been called since
  written    \* history: the doubles the completed calls of
             \* vl_file_meta_put_double have written since a file was last
             \* opened for writing

vars == <<fm, streams, fs, x, status, call, ret, libcalls, nputs, opened, written>>

NoCall == [op |-> "none", arg |-> NullArg, mode |-> ""]

LibCall(fn, r) == [fn |-> fn, r |-> r]

\* the file present before the program runs, "in": the text "1 x 2"
InitialContent == <<DigitCode(1), SpaceCode, 120, SpaceCode, DigitCode(2)>>

Init ==
  /\ \E protocol \in DefaultProtocols :
       fm = [active |-> FALSE, pattern |-> DefaultPattern, protocol |-> protocol,
             name |-> <<>>, file |-> NULL]
  /\ streams = <<>>
  /\ fs = (Str(<<"i","n">>) :> InitialContent)
  /\ x = DoubleOfNat(0)
  /\ status = "running"
  /\ call = NoCall
  /\ ret = "none"
  /\ libcalls = <<>>
  /\ nputs = 0
  /\ opened = FALSE
  /\ written = <<>>

----------------------------------------------------------------------------
(* vl_file_meta_parse *)

\* mutant of ParseSetActive: active is left alone
ParseSetActive_Skip(f) == f

\* fm -> active = 1
ParseSetActive(f) == [f EXCEPT !.active = TRUE]

\* mutant of ParseSetProtocol: VL_PROT_BINARY is not stored
ParseSetProtocol_OnlyAscii(f, protocol) ==
  IF protocol = VL_PROT_ASCII THEN [f EXCEPT !.protocol = protocol] ELSE f

\* mutant of ParseSetProtocol: VL_PROT_NONE is stored too
ParseSetProtocol_StoreNone(f, protocol) ==
  IF protocol \in {VL_PROT_ASCII, VL_PROT_BINARY, VL_PROT_NONE}
  THEN [f EXCEPT !.protocol = protocol] ELSE f

\* switch (protocol): VL_PROT_ASCII and VL_PROT_BINARY are stored, VL_PROT_NONE is not
ParseSetProtocol(f, protocol) ==
  IF protocol \in {VL_PROT_ASCII, VL_PROT_BINARY}
  THEN [f EXCEPT !.protocol = protocol] ELSE f

\* mutant of ParseUnknown: VL_PROT_UNKNOWN is not rejected
ParseUnknown_Never(protocol) == FALSE

\* case VL_PROT_UNKNOWN : return VL_ERR_BAD_ARG
ParseUnknown(protocol) == protocol = VL_PROT_UNKNOWN

\* mutant of ParseHasPattern: an empty pattern is copied too
ParseHasPattern_Always(arg) == TRUE

\* if (vl_string_length (arg) > 0)
ParseHasPattern(arg) == vl_string_length(arg) > 0

\* q >= sizeof (fm -> pattern)
PatternOverflow(q) == q >= PatternSize

\* the structure and the return value of vl_file_meta_parse (f, optarg)
vl_file_meta_parse(f, optarg) ==
  LET f1 == ParseSetActive(f)
  IN  IF optarg.null THEN [fm |-> f1, ret |-> VL_ERR_OK]
      ELSE
        LET p  == vl_string_parse_protocol(optarg.s)
            f2 == ParseSetProtocol(f1, p.protocol)
            c  == vl_string_copy(f2.pattern, PatternSize, p.arg)
            f3 == [f2 EXCEPT !.pattern = c.dst]
        IN  IF ParseUnknown(p.protocol) THEN [fm |-> f1, ret |-> VL_ERR_BAD_ARG]
            ELSE IF ParseHasPattern(p.arg)
                 THEN [fm |-> f3,
                       ret |-> IF PatternOverflow(c.q) THEN VL_ERR_OVERFLOW ELSE VL_ERR_OK]
                 ELSE [fm |-> f2, ret |-> VL_ERR_OK]

Parse(optargs) ==
  /\ status = "running"
  /\ \E optarg \in optargs :
       /\ fm' = vl_file_meta_parse(fm, optarg).fm
       /\ ret' = vl_file_meta_parse(fm, optarg).ret
       /\ call' = [NoCall EXCEPT !.op = "parse", !.arg = optarg]
  /\ libcalls' = <<>>
  /\ UNCHANGED <<streams, fs, x, status, nputs, opened, written>>

----------------------------------------------------------------------------
(* vl_file_meta_open *)

\* mutant of OpenInactive: the test of fm -> active is missing
OpenInactive_NoTest(f) == FALSE

\* if (! fm -> active) return VL_ERR_OK
OpenInactive(f) == ~ f.active

\* mutant of NameOverflow: > for >=
NameOverflow_OffByOne(q) == q > NameSize

\* q >= sizeof (fm -> name)
NameOverflow(q) == q >= NameSize

\* fopen (name, mode) can succeed: "r" needs the file to exist
FopenPossible(name, mode) == mode = "w" \/ name \in DOMAIN fs

\* the file system after a successful fopen (name, mode): "w" creates or truncates
FopenFs(name, mode) ==
  IF mode = "w"
  THEN [n \in DOMAIN fs \cup {name} |-> IF n = name THEN <<>> ELSE fs[n]]
  ELSE fs

NewStream(name, mode) ==
  [path |-> name, mode |-> mode, pos |-> 0, eof |-> FALSE, open |-> TRUE]

\* a stream that fclose has released, and one that is open while fm -> file no
\* longer points to it: the program cannot use either again, and only its
\* being open is kept
Released == [path |-> <<>>, mode |-> "", pos |-> 0, eof |-> FALSE, open |-> FALSE]
Lost     == [path |-> <<>>, mode |-> "", pos |-> 0, eof |-> FALSE, open |-> TRUE]

\* the streams once fm -> file is overwritten
Overwritten(f) ==
  IF f.file # NULL THEN [streams EXCEPT ![f.file] = Lost] ELSE streams

\* mutant of OpenResult: the result of fopen is not tested
OpenResult_AlwaysOk(file) == VL_ERR_OK

\* if (! fm -> file) return VL_ERR_IO ; ... return VL_ERR_OK, with file the
\* value of fopen
OpenResult(file) == IF file = NULL THEN VL_ERR_IO ELSE VL_ERR_OK

\* envOk: the environment lets fopen succeed (the path exists, permissions)
Open(basenames) ==
  /\ status = "running"
  /\ \E basename \in basenames, mode \in Modes, envOk \in BOOLEAN :
       LET w == vl_string_replace_wildcard(fm.name, NameSize, fm.pattern, "%", basename)
           ok == envOk /\ FopenPossible(w.dst, mode)
       IN  /\ call' = [NoCall EXCEPT !.op = "open", !.arg = Arg(basename), !.mode = mode]
           /\ IF OpenInactive(fm)
              THEN /\ ret' = VL_ERR_OK
                   /\ libcalls' = <<>>
                   /\ UNCHANGED <<fm, streams, fs, opened, written>>
              ELSE IF NameOverflow(w.q)
              THEN /\ ret' = VL_ERR_OVERFLOW
                   /\ fm' = [fm EXCEPT !.name = w.dst]
                   /\ libcalls' = <<>>
                   /\ opened' = FALSE
                   /\ UNCHANGED <<streams, fs, written>>
              ELSE /\ Len(streams) < MaxFopen
                   /\ libcalls' = <<LibCall("fopen", IF ok THEN Len(streams) + 1 ELSE NULL)>>
                   /\ IF ok
                      THEN /\ streams' = Append(Overwritten(fm), NewStream(w.dst, mode))
                           /\ fs' = FopenFs(w.dst, mode)
                           /\ fm' = [fm EXCEPT !.name = w.dst, !.file = Len(streams) + 1]
                           /\ ret' = OpenResult(Len(streams) + 1)
                           /\ opened' = TRUE
                           /\ written' = IF mode = "w" THEN <<>> ELSE written
                      ELSE /\ fm' = [fm EXCEPT !.name = w.dst, !.file = NULL]
                           /\ ret' = OpenResult(NULL)
                           /\ opened' = FALSE
                           /\ streams' = Overwritten(fm)
                           /\ UNCHANGED <<fs, written>>
  /\ UNCHANGED <<x, status, nputs>>

----------------------------------------------------------------------------
(* vl_file_meta_close *)

\* if (fm -> file)
ClosePresent(f) == f.file # NULL

\* mutants of CloseFile: fm -> file is left alone; fm -> active is cleared too
CloseFile_Keep(f) == f
CloseFile_Deactivate(f) == [f EXCEPT !.file = NULL, !.active = FALSE]

\* fm -> file = 0
CloseFile(f) == [f EXCEPT !.file = NULL]

Close ==
  /\ status = "running"
  /\ call' = [NoCall EXCEPT !.op = "close"]
  /\ ret' = "none"
  /\ opened' = FALSE
  /\ IF ClosePresent(fm)
     THEN /\ libcalls' = <<LibCall("fclose", 0)>>
          /\ streams' = [streams EXCEPT ![fm.file] = Released]
          /\ fm' = CloseFile(fm)
     ELSE /\ libcalls' = <<>>
          /\ UNCHANGED <<fm, streams>>
  /\ UNCHANGED <<fs, x, status, nputs, written>>

----------------------------------------------------------------------------
(* The C library on an open stream *)

Max(a, b) == IF a >= b THEN a ELSE b

\* content with bytes written at offset pos; a gap is filled with zeros
WriteAt(content, pos, bytes) ==
  [i \in 1..Max(Len(content), pos + Len(bytes)) |->
     IF pos < i /\ i <= pos + Len(bytes) THEN bytes[i - pos]
     ELSE IF i <= Len(content) THEN content[i]
     ELSE 0]

\* fprintf and fwrite of bytes to stream s complete: the stream is open for
\* writing and the environment (envOk: the disk is not full) lets them
WriteCompletes(s, envOk) == s.mode = "w" /\ envOk

\* the value of fprintf: the number of characters written, negative on failure
FprintfResult(completes, bytes) == IF completes THEN Len(bytes) ELSE -1

\* the value of fwrite (ptr, size, 1, file): the number of elements written
FwriteResult(completes) == IF completes THEN 1 ELSE 0

\* fscanf (file, "%lg", x) on content at offset pos.  The bytes of the files of
\* this model are digits, spaces, 'x' and the bytes of the doubles and the
\* uint8 values written, among which only a run of digits starts or continues
\* a number.
\* start: the first byte that is not white space; stop: the first byte after
\* the digits at start
ScanStart(content, pos) ==
  LET rest == {i \in (pos + 1)..Len(content) : ~ IsSpace(content[i])}
  IN  IF rest = {} THEN Len(content) + 1
      ELSE CHOOSE i \in rest : \A j \in rest : i <= j

ScanStop(content, start) ==
  LET rest == {i \in start..Len(content) : ~ IsDigit(content[i])}
  IN  IF rest = {} THEN Len(content) + 1
      ELSE CHOOSE i \in rest : \A j \in rest : i <= j

\* n: the value of fscanf (1 a double was converted, 0 the input does not match,
\* -1 the input ended or could not be read); envOk: the environment lets the
\* read succeed (no read error)
Fscanf(s, content, envOk) ==
  LET start == ScanStart(content, s.pos)
      stop  == ScanStop(content, start)
  IN  IF s.mode # "r" \/ ~ envOk
      THEN [n |-> -1, pos |-> s.pos, eof |-> s.eof, value |-> <<>>]
      ELSE IF s.eof \/ start > Len(content)
      THEN [n |-> -1, pos |-> Max(s.pos, Len(content)), eof |-> TRUE, value |-> <<>>]
      ELSE IF stop = start
      THEN [n |-> 0, pos |-> start - 1, eof |-> s.eof, value |-> <<>>]
      ELSE [n |-> 1, pos |-> stop - 1, eof |-> stop > Len(content),
            value |-> DoubleOfNat(DecimalValue(SubSeq(content, start, stop - 1)))]

\* n = fread (&y, 8, 1, file): n is 1 when 8 bytes were read; when fewer are left
\* the stream is at its end
Fread8(s, content, envOk) ==
  IF s.mode # "r" \/ ~ envOk
  THEN [n |-> 0, pos |-> s.pos, eof |-> s.eof, bytes |-> <<>>]
  ELSE IF s.eof \/ s.pos + 8 > Len(content)
  THEN [n |-> 0, pos |-> Max(s.pos, Len(content)), eof |-> TRUE, bytes |-> <<>>]
  ELSE [n |-> 1, pos |-> s.pos + 8, eof |-> FALSE,
        bytes |-> SubSeq(content, s.pos + 1, s.pos + 8)]

\* feof (file)
Feof(s) == IF s.eof THEN 1 ELSE 0

----------------------------------------------------------------------------
(* Doubles in memory *)

\* the byte orders of the hosts the program is built for
Hosts == {"little", "big"}

\* the bytes of the double d in the memory of a host, and the double that
\* bytes of its memory hold
ToMemory(host, d) == IF host = "little" THEN Reverse(d) ELSE d
FromMemory(host, bytes) == IF host = "little" THEN Reverse(bytes) ELSE bytes

\* vl_adapt_endianness_8 (dst, src): the 8 bytes of src in big endian order on
\* a little endian host and back; a copy on a big endian host
vl_adapt_endianness_8(host, src) == IF host = "little" THEN Reverse(src) ELSE src

\* the integer the double d holds, for the doubles of DoubleInputs
NatOfDouble(d) == CHOOSE n \in 0..9 : DoubleOfNat(n) = d

\* the text of printf ("%g ", d), for the doubles of DoubleInputs
FormatG(d) == Append(Decimal(NatOfDouble(d)), SpaceCode)

\* the text of printf ("%d ", b)
FormatD(b) == Append(Decimal(b), SpaceCode)

----------------------------------------------------------------------------
(* vl_file_meta_put_double, vl_file_meta_put_uint8 *)

\* return err ? VL_ERR_ALLOC : VL_ERR_OK
PutResult(err) == IF err # 0 THEN VL_ERR_ALLOC ELSE VL_ERR_OK

\* default: assert (0)
AssertFails ==
  /\ status' = "aborted"
  /\ ret' = "none"
  /\ libcalls' = <<>>
  /\ UNCHANGED <<fm, streams, fs, x, nputs, opened, written>>

\* a C library function called with the null stream: undefined behaviour, which
\* ends the program or lets the call return one of rets
Undefined(fn, rets) ==
  /\ libcalls' = <<LibCall(fn, 0)>>
  /\ \E outcome \in {"crash"} \cup rets :
       IF outcome = "crash"
       THEN status' = "crashed" /\ ret' = "none"
       ELSE status' = "running" /\ ret' = outcome
  /\ UNCHANGED <<fm, streams, fs, nputs, opened, written>>

\* err = fprintf (fm -> file, ...) or err = fwrite (..., fm -> file) of bytes,
\* and the return; doubles: the doubles that bytes encode
PutBytes(fn, bytes, envOk, doubles) ==
  LET s == streams[fm.file]
      completes == WriteCompletes(s, envOk)
      err == IF fn = "fprintf" THEN FprintfResult(completes, bytes)
             ELSE FwriteResult(completes)
  IN  /\ libcalls' = <<LibCall(fn, err)>>
      /\ ret' = PutResult(err)
      /\ IF completes
         THEN /\ fs' = [fs EXCEPT ![s.path] = WriteAt(@, s.pos, bytes)]
              /\ streams' = [streams EXCEPT ![fm.file].pos = @ + Len(bytes)]
              /\ nputs' = nputs + 1
              /\ written' = written \o doubles
         ELSE UNCHANGED <<fs, streams, nputs, written>>
      /\ UNCHANGED <<fm, x, status, opened>>

\* mutant of PutDoubleBytes: the bytes of x are written as they are in memory
PutDoubleBytes_NoAdapt(host, d) == ToMemory(host, d)

\* vl_adapt_endianness_8 (&y, &x) ; fwrite (&y, sizeof(double), 1, fm -> file):
\* the bytes written for the double d on a host
PutDoubleBytes(host, d) == vl_adapt_endianness_8(host, ToMemory(host, d))

PutDouble ==
  /\ status = "running"
  /\ call' = [NoCall EXCEPT !.op = "put_double"]
  /\ \E d \in DoubleInputs :
          IF fm.protocol = VL_PROT_ASCII
          THEN IF fm.file = NULL
               THEN Undefined("fprintf", {VL_ERR_OK, VL_ERR_ALLOC}) /\ x' = x
               ELSE \E envOk \in BOOLEAN : PutBytes("fprintf", FormatG(d), envOk, <<d>>)
          ELSE IF fm.protocol = VL_PROT_BINARY
          THEN IF fm.file = NULL
               THEN Undefined("fwrite", {VL_ERR_OK, VL_ERR_ALLOC}) /\ x' = x
               ELSE \E envOk \in BOOLEAN, host \in Hosts :
                      PutBytes("fwrite", PutDoubleBytes(host, d), envOk, <<d>>)
          ELSE AssertFails

PutUint8 ==
  /\ status = "running"
  /\ call' = [NoCall EXCEPT !.op = "put_uint8"]
  /\ \E b \in Uint8Inputs :
          IF fm.protocol = VL_PROT_ASCII
          THEN IF fm.file = NULL
               THEN Undefined("fprintf", {VL_ERR_OK, VL_ERR_ALLOC}) /\ x' = x
               ELSE \E envOk \in BOOLEAN : PutBytes("fprintf", FormatD(b), envOk, <<>>)
          ELSE IF fm.protocol = VL_PROT_BINARY
          THEN IF fm.file = NULL
               THEN Undefined("fwrite", {VL_ERR_OK, VL_ERR_ALLOC}) /\ x' = x
               ELSE \E envOk \in BOOLEAN : PutBytes("fwrite", <<b>>, envOk, <<>>)
          ELSE AssertFails

----------------------------------------------------------------------------
(* vl_file_meta_get_double *)

\* err = n < 1
ReadFailed(n) == n < 1

\* mutant of GetResult: feof is not consulted
GetResult_NoFeof(err, eof) == IF err THEN VL_ERR_EOF ELSE VL_ERR_OK

\* if (err) { if (feof (fm -> file)) return VL_ERR_EOF ; else return
\* VL_ERR_BAD_ARG ; } return VL_ERR_OK
GetResult(err, eof) ==
  IF err THEN (IF eof # 0 THEN VL_ERR_EOF ELSE VL_ERR_BAD_ARG) ELSE VL_ERR_OK

\* the stream after a read r, the library calls and the return value
GetFinish(fn, r) ==
  LET s1 == [streams[fm.file] EXCEPT !.pos = r.pos, !.eof = r.eof]
  IN  /\ streams' = [streams EXCEPT ![fm.file] = s1]
      /\ libcalls' = IF ReadFailed(r.n)
                     THEN <<LibCall(fn, r.n), LibCall("feof", Feof(s1))>>
                     ELSE <<LibCall(fn, r.n)>>
      /\ ret' = GetResult(ReadFailed(r.n), Feof(s1))
      /\ UNCHANGED <<fm, fs, status, nputs, opened, written>>

GetDouble ==
  /\ status = "running"
  /\ call' = [NoCall EXCEPT !.op = "get_double"]
  /\ IF fm.protocol = VL_PROT_ASCII
     THEN IF fm.file = NULL
          THEN /\ Undefined("fscanf", {VL_ERR_OK, VL_ERR_EOF, VL_ERR_BAD_ARG})
               /\ x' \in {x} \cup Garbage
          ELSE \E envOk \in BOOLEAN :
                 LET r == Fscanf(streams[fm.file], fs[streams[fm.file].path], envOk)
                 IN  /\ GetFinish("fscanf", r)
                     /\ x' = IF r.n = 1 THEN r.value ELSE x
     ELSE IF fm.protocol = VL_PROT_BINARY
     THEN IF fm.file = NULL
          THEN /\ Undefined("fread", {VL_ERR_OK, VL_ERR_EOF, VL_ERR_BAD_ARG})
               /\ x' \in {x} \cup Garbage
          ELSE \E envOk \in BOOLEAN, garbage \in Garbage, host \in Hosts :
                 LET r == Fread8(streams[fm.file], fs[streams[fm.file].path], envOk)
                     \* y is written by a successful fread only
                     y == IF r.n = 1 THEN r.bytes ELSE garbage
                 IN  /\ GetFinish("fread", r)
                     /\ x' = FromMemory(host, vl_adapt_endianness_8(host, y))
     ELSE AssertFails

----------------------------------------------------------------------------
(* Specifications *)

\* a driver calling the six functions in any order, until MaxPuts writes have
\* completed
Next ==
  \/ Parse(OptArgs)
  \/ Open(Basenames)
  \/ Close
  \/ PutDouble /\ nputs' <= MaxPuts
  \/ PutUint8 /\ nputs' <= MaxPuts
  \/ GetDouble

Spec == Init /\ [][Next]_vars

\* a driver configuring, opening and closing, with option strings and
\* basenames up to the capacity of the buffers
LongNext ==
  \/ Parse(LongOptArgs)
  \/ Open(LongBasenames)
  \/ Close

LongSpec == Init /\ [][LongNext]_vars

\* a driver calling the six functions in any order, with a basename that makes
\* open fail with VL_ERR_OVERFLOW
CycleNext ==
  \/ Parse(CycleOptArgs)
  \/ Open(CycleBasenames)
  \/ Close
  \/ PutDouble /\ nputs' <= MaxPuts
  \/ PutUint8 /\ nputs' <= MaxPuts
  \/ GetDouble

CycleSpec == Init /\ [][CycleNext]_vars

\* the handle has a stream opened with mode
StreamMode(mode) == fm.file # NULL /\ streams[fm.file].mode = mode

\* a driver that writes doubles to a file with the binary protocol, closes it,
\* opens it again and reads it to its end, where fopen, fwrite and fread do
\* not fail: it configures the handle with "binary:%", opens "in" for writing,
\* puts up to MaxRecords doubles, closes, opens "in" for reading and gets
\* doubles; each put and each get may run on a host of either byte order
RoundTripNext ==
  \/ call.op = "none" /\ Parse({Arg(Str(<<"b","i","n","a","r","y",":","%">>))})
  \/ call.op = "parse" /\ Open(Basenames) /\ call'.mode = "w" /\ ret' = VL_ERR_OK
  \/ StreamMode("w") /\ PutDouble /\ nputs' = nputs + 1 /\ nputs' <= MaxRecords
  \/ StreamMode("w") /\ Close
  \/ call.op = "close" /\ Open(Basenames) /\ call'.mode = "r" /\ ret' = VL_ERR_OK
  \/ StreamMode("r") /\ GetDouble /\ (libcalls'[1].r = 1 \/ streams'[fm.file].eof)

RoundTripSpec == Init /\ [][RoundTripNext]_vars

----------------------------------------------------------------------------
(* Properties *)

\* the streams fopen has returned and fclose has not released
OpenStreams == {i \in 1..Len(streams) : streams[i].open}

\* the string s starts with the characters of prefix
StartsWith(s, prefix) ==
  LET k == Len(prefix)
  IN  /\ k <= Len(s)
      /\ SubSeq(s, 1, k - 1) = SubSeq(prefix, 1, k - 1)
      /\ s[k][1] = prefix[k][1]
      /\ s[k][2] >= prefix[k][2]

AsciiPrefix  == Str(<<"a","s","c","i","i",":">>)
BinaryPrefix == Str(<<"b","i","n","a","r","y",":">>)

CodecOps == {"put_double", "put_uint8", "get_double"}

\* the handle is open with protocol Ascii or Binary
InContract(f) ==
  f.active /\ f.file # NULL /\ f.protocol \in {VL_PROT_ASCII, VL_PROT_BINARY}

\* C1: on a handle with a stream and protocol Ascii or Binary, put_double and
\* put_uint8 return VL_ERR_OK when the write completes (the stream advances by
\* the bytes written) and VL_ERR_ALLOC exactly when it does not.
C1_PutResultFollowsWrite ==
  [][(call'.op \in {"put_double", "put_uint8"} /\ InContract(fm))
       => LET completed == streams'[fm.file].pos > streams[fm.file].pos
          IN  /\ completed => ret' = VL_ERR_OK
              /\ ret' = VL_ERR_ALLOC <=> ~ completed]_vars

\* C2: when vl_file_meta_parse on an inactive structure returns VL_ERR_BAD_ARG or
\* VL_ERR_OVERFLOW, the structure is still inactive after the call.
C2_FailedParseStaysInactive ==
  [][(call'.op = "parse" /\ ~ fm.active /\ ret' \in {VL_ERR_BAD_ARG, VL_ERR_OVERFLOW})
       => ~ fm'.active]_vars

\* C3: at most one stream opened through the handle is unreleased at any time,
\* and none is after vl_file_meta_close.
C3_AtMostOneStream ==
  /\ Cardinality(OpenStreams) <= 1
  /\ call.op = "close" => OpenStreams = {}

\* C4: put_double, put_uint8 and get_double on a handle that is inactive, has no
\* stream or has protocol Unspecified fail the assertion: no C library function
\* is called and no value is returned.
C4_OutOfContractAsserts ==
  [][(call'.op \in CodecOps /\ ~ InContract(fm))
       => (status' = "aborted" /\ libcalls' = <<>> /\ ret' = "none")]_vars

\* C5: when vl_file_meta_parse returns VL_ERR_OVERFLOW, the stored pattern and the
\* stored protocol are what they were before the call.
C5_OverflowMutatesNothing ==
  [][(call'.op = "parse" /\ ret' = VL_ERR_OVERFLOW)
       => (fm'.pattern = fm.pattern /\ fm'.protocol = fm.protocol)]_vars

\* C6: the stream is present exactly when the last open of the active handle
\* succeeded and close has not been called since.
C6_StreamIffOpen == (fm.file # NULL) <=> opened

\* C7: on an active handle, open returns VL_ERR_OVERFLOW exactly when the pattern
\* with the basename substituted for '%' has at least 1024 characters, and then
\* fopen is not called, no file is created or truncated and the stream field is
\* left alone.
C7_OverflowBeforeFopen ==
  [][(call'.op = "open" /\ fm.active)
       => LET len == StrLen(ReplaceAll(fm.pattern, "%", call'.arg.s))
          IN  /\ len >= 1024 => /\ ret' = VL_ERR_OVERFLOW
                                /\ libcalls' = <<>>
                                /\ fs' = fs
                                /\ streams' = streams
                                /\ fm'.file = fm.file
              /\ len <= 1023 => ret' # VL_ERR_OVERFLOW]_vars

\* an open of an active handle has just returned VL_ERR_OVERFLOW for a name of
\* exactly 1024 characters
C7_Witness ==
  /\ call.op = "open"
  /\ fm.active
  /\ ret = VL_ERR_OVERFLOW
  /\ StrLen(ReplaceAll(fm.pattern, "%", call.arg.s)) = 1024

\* C8: on an inactive handle open returns VL_ERR_OK, and neither open nor close
\* calls the C library or changes the file system, the name or the stream.
C8_InactiveNoop ==
  [][(~ fm.active /\ call'.op \in {"open", "close"})
       => /\ call'.op = "open" => ret' = VL_ERR_OK
          /\ libcalls' = <<>>
          /\ fs' = fs
          /\ streams' = streams
          /\ fm'.name = fm.name
          /\ fm'.file = fm.file]_vars

\* an open with mode "w" has just returned VL_ERR_OK on an inactive handle
C8_Witness ==
  /\ call.op = "open"
  /\ call.mode = "w"
  /\ ~ fm.active
  /\ ret = VL_ERR_OK

\* C9: get_double on a handle with a stream and protocol Ascii or Binary returns
\* VL_ERR_EOF when the read fails and the stream is at its end, VL_ERR_BAD_ARG
\* when the read fails and the stream is not at its end, VL_ERR_OK when the read
\* succeeds; in particular VL_ERR_EOF for a binary read with fewer than 8 bytes
\* left that sets the end-of-file condition, and VL_ERR_BAD_ARG for an ascii read
\* whose next token does not start with a digit.
C9_GetDoubleResult ==
  [][(call'.op = "get_double" /\ InContract(fm))
       => LET s       == streams[fm.file]
              s1      == streams'[fm.file]
              content == fs[s.path]
              n       == libcalls'[1].r
              start   == ScanStart(content, s.pos)
          IN  /\ (n < 1 /\ s1.eof) => ret' = VL_ERR_EOF
              /\ (n < 1 /\ ~ s1.eof) => ret' = VL_ERR_BAD_ARG
              /\ n >= 1 => ret' = VL_ERR_OK
              /\ (fm.protocol = VL_PROT_BINARY /\ s.mode = "r"
                    /\ s.pos + 8 > Len(content) /\ s1.eof)
                   => ret' = VL_ERR_EOF
              /\ (fm.protocol = VL_PROT_ASCII /\ s.mode = "r" /\ ~ s.eof
                    /\ start <= Len(content) /\ ~ IsDigit(content[start]))
                   => ret' = VL_ERR_BAD_ARG]_vars

\* an ascii get_double has just returned VL_ERR_BAD_ARG before a byte that is
\* not a digit, with the stream not at its end
C9_Witness ==
  /\ call.op = "get_double"
  /\ InContract(fm)
  /\ fm.protocol = VL_PROT_ASCII
  /\ ret = VL_ERR_BAD_ARG
  /\ streams[fm.file].mode = "r"
  /\ ~ streams[fm.file].eof
  /\ streams[fm.file].pos < Len(fs[streams[fm.file].path])
  /\ ~ IsDigit(fs[streams[fm.file].path][streams[fm.file].pos + 1])

\* C10 as stated: for an option string starting with "ascii:" or "binary:",
\* vl_file_meta_parse returns VL_ERR_OK and the stored protocol is that protocol.
C10_PrefixAlwaysOk ==
  [][(call'.op = "parse" /\ ~ call'.arg.null)
       => /\ StartsWith(call'.arg.s, AsciiPrefix)
               => (ret' = VL_ERR_OK /\ fm'.protocol = VL_PROT_ASCII)
          /\ StartsWith(call'.arg.s, BinaryPrefix)
               => (ret' = VL_ERR_OK /\ fm'.protocol = VL_PROT_BINARY)]_vars

\* C10 amended: for an option string starting with "ascii:" or "binary:", the
\* stored protocol after vl_file_meta_parse is that protocol, and the call
\* returns VL_ERR_OK when fewer than 1024 characters follow the prefix and
\* VL_ERR_OVERFLOW otherwise.
C10_PrefixSetsProtocol ==
  [][(call'.op = "parse" /\ ~ call'.arg.null)
       => /\ StartsWith(call'.arg.s, AsciiPrefix)
               => /\ fm'.protocol = VL_PROT_ASCII
                  /\ ret' = IF StrLen(call'.arg.s) - StrLen(AsciiPrefix) < 1024
                            THEN VL_ERR_OK ELSE VL_ERR_OVERFLOW
          /\ StartsWith(call'.arg.s, BinaryPrefix)
               => /\ fm'.protocol = VL_PROT_BINARY
                  /\ ret' = IF StrLen(call'.arg.s) - StrLen(BinaryPrefix) < 1024
                            THEN VL_ERR_OK ELSE VL_ERR_OVERFLOW]_vars

\* vl_file_meta_parse has just returned VL_ERR_OVERFLOW for "binary:" followed by
\* 1024 characters, and the stored protocol is VL_PROT_BINARY
C10_Witness ==
  /\ call.op = "parse"
  /\ ~ call.arg.null
  /\ StartsWith(call.arg.s, BinaryPrefix)
  /\ StrLen(call.arg.s) - StrLen(BinaryPrefix) = 1024
  /\ ret = VL_ERR_OVERFLOW
  /\ fm.protocol = VL_PROT_BINARY

\* the option string s has no ':', so that no protocol prefix is parsed
NoPrefix(s) == \A i \in 1..Len(s) : s[i][1] # ":"

\* C11: for an option string without a protocol prefix that fits the pattern
\* buffer (fewer than 1024 characters), vl_file_meta_parse returns VL_ERR_OK and
\* the stored protocol is what it was before the call.
C11_NoPrefixKeepsProtocol ==
  [][(call'.op = "parse" /\ ~ call'.arg.null /\ NoPrefix(call'.arg.s)
        /\ StrLen(call'.arg.s) < 1024)
       => (ret' = VL_ERR_OK /\ fm'.protocol = fm.protocol)]_vars

\* vl_file_meta_parse has just returned VL_ERR_OK for "%%", which it stored as
\* the pattern, on a structure whose protocol is VL_PROT_BINARY
C11_Witness ==
  /\ call.op = "parse"
  /\ ~ call.arg.null
  /\ NoPrefix(call.arg.s)
  /\ StrLen(call.arg.s) = 2
  /\ ret = VL_ERR_OK
  /\ fm.pattern = call.arg.s
  /\ fm.protocol = VL_PROT_BINARY

\* what follows the protocol prefix of the option string s, all of s when it
\* has none
Remainder(s) == IF NoPrefix(s) THEN s ELSE AfterFirstColon(s)

\* C12 as stated: when vl_file_meta_parse returns VL_ERR_OK for an option string,
\* the stored pattern is what follows the protocol prefix, the empty string
\* included.
C12_PatternIsRemainder ==
  [][(call'.op = "parse" /\ ~ call'.arg.null /\ ret' = VL_ERR_OK)
       => fm'.pattern = Remainder(call'.arg.s)]_vars

\* C12 amended: when vl_file_meta_parse returns VL_ERR_OK for an option string,
\* the stored pattern is what follows the protocol prefix when that is not
\* empty, and the pattern stored before the call when it is empty.
C12_PatternIsRemainderIfAny ==
  [][(call'.op = "parse" /\ ~ call'.arg.null /\ ret' = VL_ERR_OK)
       => fm'.pattern = IF StrLen(Remainder(call'.arg.s)) > 0
                        THEN Remainder(call'.arg.s) ELSE fm.pattern]_vars

\* vl_file_meta_parse has just returned VL_ERR_OK for "ascii:", and the stored
\* pattern is the "%%" of an earlier call
C12_Witness ==
  /\ call.op = "parse"
  /\ ~ call.arg.null
  /\ call.arg.s = AsciiPrefix
  /\ ret = VL_ERR_OK
  /\ fm.pattern = Str(<<"%","%">>)

\* C13: vl_file_meta_close on a handle with a stream calls fclose once, on a
\* stream that has not been released, and leaves the handle without a stream;
\* on a handle without a stream or an inactive handle it calls nothing and
\* changes nothing; a close that follows a close leaves the structure, the
\* streams and the files as the first left them.
C13_CloseIdempotent ==
  [][call'.op = "close"
       => /\ fm'.file = NULL
          /\ fm.file # NULL
               => /\ libcalls' = <<LibCall("fclose", 0)>>
                  /\ streams[fm.file].open
                  /\ ~ streams'[fm.file].open
                  /\ \A i \in 1..Len(streams) : i # fm.file => streams'[i] = streams[i]
          /\ (fm.file = NULL \/ ~ fm.active)
               => (libcalls' = <<>> /\ fm' = fm /\ streams' = streams)
          /\ fs' = fs
          /\ [fm' EXCEPT !.file = NULL] = [fm EXCEPT !.file = NULL]
          /\ call.op = "close" => UNCHANGED <<fm, streams, fs, x, status>>]_vars

\* vl_file_meta_close has just been called on an active handle that an earlier
\* close had left without a stream: it called nothing, and every stream opened
\* is released
C13_Witness ==
  /\ call.op = "close"
  /\ libcalls = <<>>
  /\ fm.active
  /\ fm.file = NULL
  /\ Len(streams) >= 1
  /\ \A i \in 1..Len(streams) : streams[i] = Released

\* C14: when the N doubles of written have been put with the binary protocol,
\* the file closed and opened again for reading, the k-th get_double, for
\* k <= N, returns VL_ERR_OK and stores the k-th double written, whatever the
\* byte orders of the hosts of the put and of the get, and every later
\* get_double returns VL_ERR_EOF.
C14_BinaryRoundTrip ==
  [][(call'.op = "get_double" /\ StreamMode("r"))
       => LET k == streams[fm.file].pos \div 8     \* the doubles read so far
          IN  /\ k < Len(written) => (ret' = VL_ERR_OK /\ x' = written[k + 1])
              /\ k >= Len(written) => ret' = VL_ERR_EOF]_vars

\* the second get_double has just returned VL_ERR_OK and stored the second of
\* two different doubles written
C14_Witness ==
  /\ call.op = "get_double"
  /\ StreamMode("r")
  /\ ret = VL_ERR_OK
  /\ Len(written) >= 2
  /\ written[1] # written[2]
  /\ streams[fm.file].pos = 16
  /\ x = written[2]

\* the option string s has a ':' and what precedes its first ':' is neither
\* "ascii" nor "binary"
UnknownPrefix(s) ==
  /\ ~ NoPrefix(s)
  /\ SubSeq(s, 1, FirstColonRun(s) - 1)
       \notin {Str(<<"a","s","c","i","i">>), Str(<<"b","i","n","a","r","y">>)}

\* C15: for an option string whose prefix before the first ':' is not the name
\* of a protocol, vl_file_meta_parse returns VL_ERR_BAD_ARG.
C15_UnknownPrefixBadArg ==
  [][(call'.op = "parse" /\ ~ call'.arg.null /\ UnknownPrefix(call'.arg.s))
       => ret' = VL_ERR_BAD_ARG]_vars

\* vl_file_meta_parse has just returned VL_ERR_BAD_ARG for "xml:foo"
C15_Witness ==
  /\ call.op = "parse"
  /\ call.arg = Arg(Str(<<"x","m","l",":","f","o","o">>))
  /\ ret = VL_ERR_BAD_ARG

\* C16: on an active handle whose name, the pattern with the basename
\* substituted for '%', has fewer than 1024 characters, open calls fopen; it
\* returns VL_ERR_IO exactly when fopen returns the null pointer, and then the
\* handle has no stream; otherwise it returns VL_ERR_OK and the handle has the
\* stream fopen returned, so that VL_ERR_OK is never returned without a stream.
C16_IoErrorIffFopenFails ==
  [][(call'.op = "open" /\ fm.active
        /\ StrLen(ReplaceAll(fm.pattern, "%", call'.arg.s)) < 1024)
       => /\ Len(libcalls') = 1
          /\ libcalls'[1].fn = "fopen"
          /\ ret' = VL_ERR_IO <=> libcalls'[1].r = NULL
          /\ libcalls'[1].r = NULL => fm'.file = NULL
          /\ libcalls'[1].r # NULL
               => /\ ret' = VL_ERR_OK
                  /\ fm'.file = libcalls'[1].r
                  /\ streams'[fm'.file].open
          /\ ret' = VL_ERR_OK => fm'.file # NULL]_vars

\* an open for reading of a file that does not exist, with a name of 1023
\* characters, has just returned VL_ERR_IO and the handle has no stream
C16_Witness ==
  /\ call.op = "open"
  /\ call.mode = "r"
  /\ fm.active
  /\ StrLen(fm.name) = 1023
  /\ fm.name \notin DOMAIN fs
  /\ libcalls = <<LibCall("fopen", NULL)>>
  /\ ret = VL_ERR_IO
  /\ fm.file = NULL

\* C17: open, close, put_double, put_uint8 and get_double, whatever they
\* return, leave active, pattern and protocol as they were; no call changes
\* active from true to false.
C17_ConfigurationPersists ==
  [][/\ call'.op # "parse"
          => /\ fm'.active = fm.active
             /\ fm'.pattern = fm.pattern
             /\ fm'.protocol = fm.protocol
     /\ fm.active => fm'.active]_vars

\* the handle configured with "binary:in" is still active with that pattern
\* and protocol after a write completed and the stream was closed
C17_Witness ==
  /\ call.op = "close"
  /\ libcalls = <<LibCall("fclose", 0)>>
  /\ nputs >= 1
  /\ fm.active
  /\ fm.pattern = Str(<<"i","n">>)
  /\ fm.protocol = VL_PROT_BINARY

\* C18: when get_double on a handle with a stream and protocol Ascii or Binary
\* returns VL_ERR_EOF or VL_ERR_BAD_ARG, the caller's double is what it was
\* before the call.
C18_ErrorLeavesX ==
  [][(call'.op = "get_double" /\ InContract(fm)
        /\ ret' \in {VL_ERR_EOF, VL_ERR_BAD_ARG})
       => x' = x]_vars

\* C19: vl_file_meta_parse with the null pointer for the option string returns
\* VL_ERR_OK and leaves the structure active, with the protocol and the pattern
\* it had before the call.
C19_NullOptionActivates ==
  [][(call'.op = "parse" /\ call'.arg.null)
       => /\ fm'.active
          /\ ret' = VL_ERR_OK
          /\ fm'.protocol = fm.protocol
          /\ fm'.pattern = fm.pattern]_vars

\* vl_file_meta_parse with the null pointer has just returned VL_ERR_OK, and the
\* structure is active with the default pattern and the protocol VL_PROT_ASCII
C19_Witness ==
  /\ call.op = "parse"
  /\ call.arg.null
  /\ ret = VL_ERR_OK
  /\ fm.active
  /\ fm.pattern = DefaultPattern
  /\ fm.protocol = VL_PROT_ASCII
  /\ streams = <<>>

====
